---- MODULE Spec2Model ----
(***************************************************************************)
(* The agent bridge of overlay-ui/src-tauri/src/lib.rs: the WebSocket      *)
(* listener (start_ws_server), the per-connection session                  *)
(* (handle_connection), the shared writer slot (AppState.ws_writer) and    *)
(* the UI command (send_to_agent).                                         *)
(*                                                                         *)
(* Every await of the code is a step boundary.  The slot is behind a       *)
(* tokio Mutex: a task that takes the lock and drops the guard without an  *)
(* await in between (install, cleanup, the empty-slot branch of            *)
(* send_to_agent) does so in one step; send_to_agent keeps the guard over  *)
(* the await of writer.send, so the lock is a variable.                    *)
(***************************************************************************)
EXTENDS Integers, Sequences, FiniteSets, TLC

\* ---- bounds of the model ----
NumSessions == 2      \* connections the listener accepts at most
NumCallers == 2       \* send_to_agent calls the UI makes at most, each its own task
MaxFrames == 2        \* stream items delivered at most, over all connections

\* ---- program constants ----
WS_PORT == 19823

Sessions == 1..NumSessions
Callers == 1..NumCallers

\* Option<T>: None is the empty sequence, Some(x) the one-element sequence.
None == <<>>
Some(x) == <<x>>

\* ---- JSON documents carried by text frames ----
\* A JSON value of a field: absent from the object, null, a string, an array
\* of strings, or a number.
JAbsent == [t |-> "absent", s |-> "", a |-> <<>>]
JNull == [t |-> "null", s |-> "", a |-> <<>>]
JNum == [t |-> "num", s |-> "", a |-> <<>>]
JStr(str) == [t |-> "str", s |-> str, a |-> <<>>]
JArr(seq) == [t |-> "arr", s |-> "", a |-> seq]

\* The text of a frame: json says whether it parses as a JSON object.
Doc(r, c, ts, tc) ==
    [json |-> TRUE, role |-> r, content |-> c, timestamp |-> ts, toolCalls |-> tc]
NotJson ==
    [json |-> FALSE, role |-> JAbsent, content |-> JAbsent,
     timestamp |-> JAbsent, toolCalls |-> JAbsent]

\* struct AgentMessage
AgentMessage(r, c, ts, tc) ==
    [role |-> r, content |-> c, timestamp |-> ts, tool_calls |-> tc]
NoMessage == AgentMessage("", "", "", None)

\* A required String field: the error serde reports for it, "" when it is fine.
StringFieldError(v, name) ==
    IF v.t = "absent" THEN "missing field " \o name
    ELSE IF v.t # "str" THEN "invalid type for " \o name
    ELSE ""

\* An Option<Vec<String>> field: absent and null both give None.
OptionVecError(v, name) ==
    IF v.t \in {"absent", "null", "arr"} THEN ""
    ELSE "invalid type for " \o name

\* Mutant of option_vec: a missing field is filled with the default Vec.
option_vec_default(v) == Some(v.a)

\* The value of an Option<Vec<String>> field that has no error: Some of the
\* array's elements in their order, None for a missing field and for null.
option_vec(v) == IF v.t = "arr" THEN Some(v.a) ELSE None

\* serde_json::from_str::<AgentMessage>(text)
from_str(doc) ==
    LET e1 == StringFieldError(doc.role, "role")
        e2 == StringFieldError(doc.content, "content")
        e3 == StringFieldError(doc.timestamp, "timestamp")
        e4 == OptionVecError(doc.toolCalls, "toolCalls")
        err == IF ~doc.json THEN "expected value"
               ELSE IF e1 # "" THEN e1
               ELSE IF e2 # "" THEN e2
               ELSE IF e3 # "" THEN e3
               ELSE e4
    IN  IF err # ""
        THEN [ok |-> FALSE, msg |-> NoMessage, err |-> err]
        ELSE [ok |-> TRUE,
              msg |-> AgentMessage(doc.role.s, doc.content.s, doc.timestamp.s,
                        option_vec(doc.toolCalls)),
              err |-> ""]

\* Mutant of UiMessage: the argument is not moved into the message.
UiMessage_blank(content) == [msg_type |-> "user_input", content |-> ""]

\* struct UiMessage, and its serialisation by serde_json::to_string
UiMessage(content) == [msg_type |-> "user_input", content |-> content]
to_string(msg) == [type |-> msg.msg_type, content |-> msg.content]

\* ---- items a connection's stream yields to read.next() ----
Frame(k, d) == [kind |-> k, doc |-> d]
TextFull == Frame("text", Doc(JStr("assistant"), JStr("hi"), JStr("t1"), JAbsent))
TextTools ==
    Frame("text", Doc(JStr("assistant"), JStr("hi"), JStr("t1"), JArr(<<"a", "b">>)))
TextNoContent == Frame("text", Doc(JStr("assistant"), JAbsent, JAbsent, JAbsent))
BinaryFrame == Frame("binary", NotJson)
PingFrame == Frame("ping", NotJson)
PongFrame == Frame("pong", NotJson)
CloseFrame == Frame("close", NotJson)
ReadErr == Frame("err", NotJson)        \* Some(Err(e))
StreamEnd == Frame("end", NotJson)      \* None
NoItem == Frame("none", NotJson)        \* nothing read, or already handled
StreamItems ==
    {TextFull, TextNoContent, BinaryFrame, CloseFrame, ReadErr, StreamEnd}

\* The values toolCalls takes in the documents an agent sends where the
\* decoding is followed: missing, null, a number, and arrays of strings, the
\* empty one and two of the same elements in different order among them.
ToolCallValues ==
    {JAbsent, JNull, JNum, JArr(<<>>), JArr(<<"a">>), JArr(<<"a", "b">>),
     JArr(<<"b", "a">>)}
\* Text frames with role and content present, with and without timestamp.
Envelopes ==
    {Frame("text", Doc(JStr("assistant"), JStr("hi"), ts, tc)) :
       ts \in {JStr("t1"), JAbsent}, tc \in ToolCallValues}

\* The frames a connection sends where the frame kinds are followed: every
\* kind of Message, a text and a close frame among them.
FrameItems == {BinaryFrame, PingFrame, PongFrame, TextFull, CloseFrame}

is_text(m) == m.kind = "text"
is_close(m) == m.kind = "close"

Contents == {"hello"}
\* The arguments of send_to_agent where the text of the frame written is
\* followed: more than one, so that a frame can carry another call's text.
SendContents == {"hello", "bye"}

\* ---- events pushed into the event sink by app.emit ----
\* src is the task that emitted it: 0 the listener, s the session s.
Event(n, p, m, src) == [name |-> n, text |-> p, msg |-> m, src |-> src]
StatusEvent(p, src) == Event("agent-status", p, NoMessage, src)
ErrorEvent(p, src) == Event("agent-error", p, NoMessage, src)
MessageEvent(m, src) == Event("agent-message", "", m, src)

VARIABLES
    ws_writer,   \* AppState.ws_writer: None, or Some(s): the write half of session s
    lock,        \* the Mutex of ws_writer: 0 free, c held by caller c over its write
    listener,    \* start_ws_server: "start", "accepting", "bind_failed", "stopped"
    nconn,       \* connections accepted so far
    conn,        \* handle_connection of each connection: where the task is
    hs,          \* per connection: what accept_async returned ("ok", "failed")
    cur,         \* per connection: msg, the item read.next() returned last
    wire,        \* per connection: the stream items delivered so far, in order
    nread,       \* per connection: how many of them read.next() has returned
    events,      \* the event sink: every event emitted, in order
    call,        \* send_to_agent per call: pc, argument, result, and late
    sent,        \* per connection: the frames written to its transport
    lastInstall  \* history: the session that installed its writer last, 0 if none

vars == <<ws_writer, lock, listener, nconn, conn, hs, cur, wire, nread, events, call,
          sent, lastInstall>>

IdleCall == [pc |-> "idle", content |-> "", result |-> "none", late |-> FALSE]

Init ==
    /\ ws_writer = None
    /\ lock = 0
    /\ listener = "start"
    /\ nconn = 0
    /\ conn = [s \in Sessions |-> "unborn"]
    /\ hs = [s \in Sessions |-> "pending"]
    /\ cur = [s \in Sessions |-> NoItem]
    /\ wire = [s \in Sessions |-> <<>>]
    /\ nread = [s \in Sessions |-> 0]
    /\ events = <<>>
    /\ call = [c \in Callers |-> IdleCall]
    /\ sent = [s \in Sessions |-> <<>>]
    /\ lastInstall = 0

\* app.emit(name, payload)
emit(ev) == events' = Append(events, ev)

\* ---- start_ws_server ----
ListeningText == "Listening on port " \o ToString(WS_PORT)

\* TcpListener::bind succeeds: the status is emitted and the accept loop starts.
BindOk ==
    /\ listener = "start"
    /\ listener' = "accepting"
    /\ emit(StatusEvent(ListeningText, 0))
    /\ UNCHANGED <<ws_writer, lock, nconn, conn, hs, cur, wire, nread, call, sent,
                   lastInstall>>

\* Mutant of bind_failed_next: the return of the Err arm is missing.
bind_failed_noreturn == "accepting"

\* Where start_ws_server goes on from a failed bind: it returns.
bind_failed_next == "bind_failed"

\* TcpListener::bind fails: one error event, and start_ws_server returns.
BindFail ==
    /\ listener = "start"
    /\ listener' = bind_failed_next
    /\ emit(ErrorEvent("Failed to start server", 0))
    /\ UNCHANGED <<ws_writer, lock, nconn, conn, hs, cur, wire, nread, call, sent,
                   lastInstall>>

\* listener.accept() returns Ok: handle_connection is spawned for the stream.
Accept ==
    /\ listener = "accepting"
    /\ nconn < NumSessions
    /\ nconn' = nconn + 1
    /\ conn' = [conn EXCEPT ![nconn + 1] = "handshaking"]
    /\ UNCHANGED <<ws_writer, lock, listener, hs, cur, wire, nread, events, call,
                   sent, lastInstall>>

\* What the accept loop does with Err from listener.accept(): the pattern of
\* `while let Ok(..)` does not match, the loop ends and start_ws_server returns.
after_accept_error == "stopped"

AcceptError ==
    /\ listener = "accepting"
    /\ listener' = after_accept_error
    /\ UNCHANGED <<ws_writer, lock, nconn, conn, hs, cur, wire, nread, events, call,
                   sent, lastInstall>>

\* ---- the slot's lock ----
\* Mutant of acquirable: lock() returns a guard while another guard is alive.
acquirable_held == TRUE

\* ws_writer.lock().await returns only when no guard of the Mutex is alive.
acquirable == lock = 0

\* ---- handle_connection ----
goto(s, pc) == conn' = [conn EXCEPT ![s] = pc]

\* Mutant of handshake_next: the return of the Err arm is missing.
handshake_next_noreturn(ok) == "install"

\* Where handle_connection goes on from accept_async: on Ok to
\* ws_stream.split() and the install, on Err it logs with eprintln and returns.
handshake_next(ok) == IF ok THEN "install" ELSE "done"

\* accept_async(stream).await returns.
Handshake(s, ok) ==
    /\ conn[s] = "handshaking"
    /\ hs' = [hs EXCEPT ![s] = IF ok THEN "ok" ELSE "failed"]
    /\ goto(s, handshake_next(ok))
    /\ UNCHANGED <<ws_writer, lock, listener, nconn, cur, wire, nread, events, call,
                   sent, lastInstall>>

\* { let mut writer_guard = ws_writer.lock().await; *writer_guard = Some(write); }
Install(s) ==
    /\ conn[s] = "install"
    /\ acquirable
    /\ ws_writer' = Some(s)
    /\ lastInstall' = s
    /\ goto(s, "announce")
    /\ UNCHANGED <<lock, listener, nconn, hs, cur, wire, nread, events, call, sent>>

\* Mutant of Announce: the read loop is entered without the status event.
Announce_silent(s) ==
    /\ conn[s] = "announce"
    /\ goto(s, "reading")
    /\ UNCHANGED <<ws_writer, lock, listener, nconn, hs, cur, wire, nread, events,
                   call, sent, lastInstall>>

\* app.emit("agent-status", "Agent connected")
Announce(s) ==
    /\ conn[s] = "announce"
    /\ emit(StatusEvent("Agent connected", s))
    /\ goto(s, "reading")
    /\ UNCHANGED <<ws_writer, lock, listener, nconn, hs, cur, wire, nread, call,
                   sent, lastInstall>>

RECURSIVE Delivered(_)
Delivered(n) == IF n = 0 THEN 0 ELSE Len(wire[n]) + Delivered(n - 1)

\* Nothing follows the end of a stream.
stream_open(s) == \A i \in 1..Len(wire[s]) : wire[s][i] # StreamEnd

\* The transport delivers the next item of connection s's stream.  An item
\* that arrives before the read loop starts waits like one that arrives
\* during it, so arrivals are taken from the start of the loop on.
Arrive(s, item) ==
    /\ conn[s] \in {"reading", "handling", "cleanup"}
    /\ Delivered(NumSessions) < MaxFrames
    /\ stream_open(s)
    /\ wire' = [wire EXCEPT ![s] = Append(@, item)]
    /\ UNCHANGED <<ws_writer, lock, listener, nconn, conn, hs, cur, nread, events,
                   call, sent, lastInstall>>

\* Mutant of next_item: the newest item is taken before the older ones.
next_item_newest(s) == wire[s][Len(wire[s])]

\* The item read.next() returns: the oldest one not yet read.
next_item(s) == wire[s][nread[s] + 1]

\* read.next().await returns an item of the stream.
Read(s) ==
    /\ conn[s] = "reading"
    /\ nread[s] < Len(wire[s])
    /\ cur' = [cur EXCEPT ![s] = next_item(s)]
    /\ nread' = [nread EXCEPT ![s] = @ + 1]
    /\ goto(s, "handling")
    /\ UNCHANGED <<ws_writer, lock, listener, nconn, hs, wire, events, call, sent,
                   lastInstall>>

\* The event a text frame gives: agent-message with the decoded AgentMessage,
\* or agent-error on a parse error.
text_event(s, m) ==
    LET r == from_str(m.doc)
    IN  IF r.ok THEN MessageEvent(r.msg, s)
        ELSE ErrorEvent("Parse error: " \o r.err, s)

\* Mutant of text_next: a text frame that does not parse breaks the loop.
text_next_strict(m) == IF from_str(m.doc).ok THEN "reading" ELSE "cleanup"

\* Where the loop goes on after a text frame: to the next read.next(), whether
\* or not the text parsed.
text_next(m) == "reading"

\* Mutant of other_events: a frame of another kind is reported as an error.
other_events_noisy(s, m) ==
    IF is_close(m) THEN <<StatusEvent("Agent disconnected", s)>>
    ELSE IF m.kind = "err" THEN <<ErrorEvent("Connection error", s)>>
    ELSE IF m.kind = "end" THEN <<>>
    ELSE <<ErrorEvent("Unsupported frame", s)>>

\* The events emitted for an item that is no text frame: a status for a close
\* frame, an error for Err, none for another frame or the end of the stream.
other_events(s, m) ==
    IF is_close(m) THEN <<StatusEvent("Agent disconnected", s)>>
    ELSE IF m.kind = "err" THEN <<ErrorEvent("Connection error", s)>>
    ELSE <<>>

\* Mutant of other_next: the break of the close branch is missing.
other_next_nobreak(m) == IF m.kind \in {"err", "end"} THEN "cleanup" ELSE "reading"

\* Where the loop goes on after an item that is no text frame: close and Err
\* break, None ends the loop, another frame is skipped.
other_next(m) ==
    IF is_close(m) \/ m.kind \in {"err", "end"} THEN "cleanup" ELSE "reading"

\* Mutant of Handle: the end of the stream is announced like a close frame.
Handle_notify(s) ==
    /\ conn[s] = "handling"
    /\ IF is_text(cur[s])
       THEN /\ emit(text_event(s, cur[s]))
            /\ goto(s, text_next(cur[s]))
       ELSE /\ events' = events \o
                  (IF cur[s].kind = "end"
                   THEN <<StatusEvent("Agent disconnected", s)>>
                   ELSE other_events(s, cur[s]))
            /\ goto(s, other_next(cur[s]))
    /\ cur' = [cur EXCEPT ![s] = NoItem]
    /\ UNCHANGED <<ws_writer, lock, listener, nconn, hs, wire, nread, call, sent,
                   lastInstall>>

\* The body of `while let Some(msg) = read.next().await`, for the item read.
Handle(s) ==
    /\ conn[s] = "handling"
    /\ IF is_text(cur[s])
       THEN /\ emit(text_event(s, cur[s]))
            /\ goto(s, text_next(cur[s]))
       ELSE /\ events' = events \o other_events(s, cur[s])
            /\ goto(s, other_next(cur[s]))
    /\ cur' = [cur EXCEPT ![s] = NoItem]
    /\ UNCHANGED <<ws_writer, lock, listener, nconn, hs, wire, nread, call, sent,
                   lastInstall>>

\* Mutant of cleared: the cleanup leaves the slot as it is.
cleared_never(s) == ws_writer

\* What the cleanup stores in the slot: `*writer_guard = None`, whatever the
\* slot holds.
cleared(s) == None

\* { let mut writer_guard = ws_writer.lock().await; *writer_guard = None; }
Cleanup(s) ==
    /\ conn[s] = "cleanup"
    /\ acquirable
    /\ ws_writer' = cleared(s)
    /\ goto(s, "done")
    /\ UNCHANGED <<lock, listener, nconn, hs, cur, wire, nread, events, call, sent,
                   lastInstall>>

\* ---- send_to_agent ----
Disconnected(s) ==
    \E i \in 1..Len(events) : events[i] = StatusEvent("Agent disconnected", s)

\* The UI invokes send_to_agent(content): the call awaits the lock.  late
\* records whether an "Agent disconnected" status was emitted before the call.
SendCall(c, content) ==
    /\ call[c].pc = "idle"
    /\ call' = [call EXCEPT ![c] =
                  [pc |-> "locking", content |-> content, result |-> "none",
                   late |-> \E s \in Sessions : Disconnected(s)]]
    /\ UNCHANGED <<ws_writer, lock, listener, nconn, conn, hs, cur, wire, nread,
                   events, sent, lastInstall>>

\* The call returns res to the UI; its argument is dropped.
returns(c, res) ==
    call' = [call EXCEPT ![c] =
               [pc |-> "returned", content |-> "", result |-> res, late |-> FALSE]]

\* Mutant of send_unconnected: the empty slot is reported as success.
send_unconnected_silent(c) ==
    /\ returns(c, "Ok")
    /\ lock' = lock

\* The else branch of `if let Some(writer) = writer_guard.as_mut()`:
\* Err("Not connected to agent"), and the guard is dropped.
send_unconnected(c) ==
    /\ returns(c, "Not connected to agent")
    /\ lock' = lock

\* Mutant of SendLock: the guard outlives the return of the empty-slot branch.
SendLock_leak(c) ==
    /\ call[c].pc = "locking"
    /\ acquirable
    /\ IF ws_writer = None
       THEN returns(c, "Not connected to agent") /\ lock' = c
       ELSE /\ call' = [call EXCEPT ![c].pc = "writing"]
            /\ lock' = c
    /\ UNCHANGED <<ws_writer, listener, nconn, conn, hs, cur, wire, nread, events,
                   sent, lastInstall>>

\* state.ws_writer.lock().await returns the guard.  With None in the slot the
\* call returns at once; with Some(writer) it builds the UiMessage, starts
\* writer.send(..) and keeps the guard over the await.
SendLock(c) ==
    /\ call[c].pc = "locking"
    /\ acquirable
    /\ IF ws_writer = None
       THEN send_unconnected(c)
       ELSE /\ call' = [call EXCEPT ![c].pc = "writing"]
            /\ lock' = c
    /\ UNCHANGED <<ws_writer, listener, nconn, conn, hs, cur, wire, nread, events,
                   sent, lastInstall>>

\* Mutant of SendDone: a failed write takes the writer out of the slot.
SendDone_evict(c, ok) ==
    /\ call[c].pc = "writing"
    /\ lock = c
    /\ lock' = 0
    /\ IF ok
       THEN /\ sent' = [sent EXCEPT ![ws_writer[1]] =
                          Append(@, to_string(UiMessage(call[c].content)))]
            /\ returns(c, "Ok")
            /\ ws_writer' = ws_writer
       ELSE /\ sent' = sent
            /\ returns(c, "transport error")
            /\ ws_writer' = None
    /\ UNCHANGED <<listener, nconn, conn, hs, cur, wire, nread, events, lastInstall>>

\* writer.send(Message::Text(json)).await returns: Ok, and the frame is on the
\* transport of the session whose writer the slot holds, or Err.  The guard
\* is dropped on return.
SendDone(c, ok) ==
    /\ call[c].pc = "writing"
    /\ lock = c
    /\ lock' = 0
    /\ IF ok
       THEN /\ sent' = [sent EXCEPT ![ws_writer[1]] =
                          Append(@, to_string(UiMessage(call[c].content)))]
            /\ returns(c, "Ok")
       ELSE /\ sent' = sent
            /\ returns(c, "transport error")
    /\ UNCHANGED <<ws_writer, listener, nconn, conn, hs, cur, wire, nread, events,
                   lastInstall>>

Next ==
    \/ BindOk
    \/ BindFail
    \/ Accept
    \/ AcceptError
    \/ \E s \in Sessions, ok \in BOOLEAN : Handshake(s, ok)
    \/ \E s \in Sessions : Install(s)
    \/ \E s \in Sessions : Announce(s)
    \/ \E s \in Sessions, item \in StreamItems : Arrive(s, item)
    \/ \E s \in Sessions : Read(s)
    \/ \E s \in Sessions : Handle(s)
    \/ \E s \in Sessions : Cleanup(s)
    \/ \E c \in Callers, content \in Contents : SendCall(c, content)
    \/ \E c \in Callers : SendLock(c)
    \/ \E c \in Callers, ok \in BOOLEAN : SendDone(c, ok)

Spec == Init /\ [][Next]_vars

\* The scheduling of the tasks: the tokio Mutex hands the lock to the tasks
\* awaiting it in turn, so a task that awaits it gets it (every call is made
\* once here, so weak fairness says as much).
Scheduling ==
    /\ \A s \in Sessions : WF_vars(Cleanup(s))
    /\ \A c \in Callers : WF_vars(SendLock(c))

\* The transport: a write that was started completes or fails.  No timeout
\* of the code enforces it.
WritesComplete ==
    \A c \in Callers : WF_vars(\E ok \in BOOLEAN : SendDone(c, ok))

SchedSpec == Spec /\ Scheduling

FairSpec == Spec /\ Scheduling /\ WritesComplete

\* The bridge as the UI's commands see it: the agent's side of a connection
\* only closes it, and the UI sends different texts.
UiNext ==
    \/ BindOk
    \/ BindFail
    \/ Accept
    \/ AcceptError
    \/ \E s \in Sessions, ok \in BOOLEAN : Handshake(s, ok)
    \/ \E s \in Sessions : Install(s)
    \/ \E s \in Sessions : Announce(s)
    \/ \E s \in Sessions : Arrive(s, CloseFrame)
    \/ \E s \in Sessions : Read(s)
    \/ \E s \in Sessions : Handle(s)
    \/ \E s \in Sessions : Cleanup(s)
    \/ \E c \in Callers, content \in SendContents : SendCall(c, content)
    \/ \E c \in Callers : SendLock(c)
    \/ \E c \in Callers, ok \in BOOLEAN : SendDone(c, ok)

UiSpec == Init /\ [][UiNext]_vars

\* The bridge as the agent's messages see it: connections that send text
\* frames with role and content, and no command of the UI.
AgentNext ==
    \/ BindOk
    \/ Accept
    \/ \E s \in Sessions, ok \in BOOLEAN : Handshake(s, ok)
    \/ \E s \in Sessions : Install(s)
    \/ \E s \in Sessions : Announce(s)
    \/ \E s \in Sessions, item \in Envelopes : Arrive(s, item)
    \/ \E s \in Sessions : Read(s)
    \/ \E s \in Sessions : Handle(s)

AgentSpec == Init /\ [][AgentNext]_vars

\* The bridge with one agent that reconnects: a connection is made only
\* when the read loop of every earlier one has ended or its handshake failed.
Reconnect ==
    /\ \A s \in 1..nconn : conn[s] \in {"cleanup", "done"}
    /\ Accept

ReconnectNext ==
    \/ BindOk
    \/ BindFail
    \/ Reconnect
    \/ AcceptError
    \/ \E s \in Sessions, ok \in BOOLEAN : Handshake(s, ok)
    \/ \E s \in Sessions : Install(s)
    \/ \E s \in Sessions : Announce(s)
    \/ \E s \in Sessions, item \in StreamItems : Arrive(s, item)
    \/ \E s \in Sessions : Read(s)
    \/ \E s \in Sessions : Handle(s)
    \/ \E s \in Sessions : Cleanup(s)
    \/ \E c \in Callers, content \in Contents : SendCall(c, content)
    \/ \E c \in Callers : SendLock(c)
    \/ \E c \in Callers, ok \in BOOLEAN : SendDone(c, ok)

ReconnectSpec == Init /\ [][ReconnectNext]_vars

\* The bridge as the frames of a connection see it: connections that send
\* frames of every kind, and no command of the UI.
FrameNext ==
    \/ BindOk
    \/ Accept
    \/ \E s \in Sessions, ok \in BOOLEAN : Handshake(s, ok)
    \/ \E s \in Sessions : Install(s)
    \/ \E s \in Sessions : Announce(s)
    \/ \E s \in Sessions, item \in FrameItems : Arrive(s, item)
    \/ \E s \in Sessions : Read(s)
    \/ \E s \in Sessions : Handle(s)
    \/ \E s \in Sessions : Cleanup(s)

FrameSpec == Init /\ [][FrameNext]_vars

\* ---- the session states of the specification ----
\* Active: the handle is installed and the read loop has not ended.
Active(s) == conn[s] \in {"announce", "reading", "handling"}
\* The read loop has ended (close frame, read error or end of stream).
LoopEnded(s) == conn[s] \in {"cleanup", "done"} /\ hs[s] = "ok"

\* The step in which session s runs its cleanup.
CleanupStep(s) == conn[s] = "cleanup" /\ conn'[s] = "done"

\* C1: a closing session clears the slot if and only if the slot still holds
\* that session's own handle; a later session's handle is left in the slot.
C1_CleanupNonInterference ==
    [][\A s \in Sessions :
         CleanupStep(s) =>
           ws_writer' = IF ws_writer = Some(s) THEN None ELSE ws_writer]_vars

\* C2: while the session that installed its handle last is still Active, the
\* slot holds that session's handle, so a send is written to its transport.
C2_SlotHoldsNewestActive ==
    (lastInstall # 0 /\ Active(lastInstall)) => ws_writer = Some(lastInstall)

\* The step in which call c gets the lock and looks into the slot.
LockStep(c) == call[c].pc = "locking" /\ call'[c].pc # "locking"

\* C3: a send_to_agent call that finds the slot empty returns "Not connected
\* to agent" in that same step, writes to no transport, and leaves the slot,
\* the lock, every session and the event sink as they were.
C3_EmptySlotSend ==
    [][\A c \in Callers :
         (LockStep(c) /\ ws_writer = None) =>
           /\ call'[c].pc = "returned"
           /\ call'[c].result = "Not connected to agent"
           /\ lock' = 0
           /\ UNCHANGED <<ws_writer, sent, conn, hs, cur, nread, events>>]_vars

\* C3 happens: a call has returned "Not connected to agent" while a session
\* was closed and the other had not installed yet.
C3_Witness ==
    \E c \in Callers :
        /\ call[c].pc = "returned"
        /\ call[c].result = "Not connected to agent"
        /\ ws_writer = None
        /\ \E s \in Sessions : conn[s] = "done" /\ hs[s] = "ok"

\* A text frame that cannot decode: no JSON, or role or content missing or
\* no string.
Malformed(m) ==
    /\ is_text(m)
    /\ \/ ~m.doc.json
       \/ m.doc.role.t # "str"
       \/ m.doc.content.t # "str"

\* The events of the sink that session s emitted, in order.
EventsOf(s) == SelectSeq(events, LAMBDA e : e.src = s)

\* The step in which session s handles the item it has read.
HandleStep(s) == conn[s] = "handling" /\ conn'[s] # "handling"

\* C4: a text frame that fails to decode makes the session emit exactly one
\* agent-error event, stay Active with the slot unchanged and go on to the
\* next read; a session that has read only such frames is never Closed.
C4_MalformedFrameKeepsSession ==
    /\ [](\A s \in Sessions :
            (hs[s] = "ok" /\ \A i \in 1..nread[s] : Malformed(wire[s][i]))
              => conn[s] \notin {"cleanup", "done"})
    /\ [][\A s \in Sessions :
            (HandleStep(s) /\ Malformed(cur[s])) =>
              /\ Len(events') = Len(events) + 1
              /\ SubSeq(events', 1, Len(events)) = events
              /\ events'[Len(events')].name = "agent-error"
              /\ events'[Len(events')].src = s
              /\ conn'[s] = "reading"
              /\ ws_writer' = ws_writer]_vars

\* C4 happens: a session has handled two malformed frames, is reading, and
\* still has its handle in the slot.
C4_Witness ==
    \E s \in Sessions :
        /\ nread[s] = 2
        /\ Malformed(wire[s][1]) /\ Malformed(wire[s][2])
        /\ conn[s] = "reading"
        /\ ws_writer = Some(s)
        /\ Len(SelectSeq(EventsOf(s), LAMBDA e : e.name = "agent-error")) = 2

\* C5, as stated: the slot never holds the handle of a session whose task
\* has returned, and once a session's read loop has ended the slot eventually
\* stops holding that session's handle.
C5_SlotNeverStale ==
    /\ [](\A s \in Sessions : ws_writer = Some(s) => conn[s] # "done")
    /\ \A s \in Sessions : LoopEnded(s) ~> (ws_writer # Some(s))

\* C5, amended: the slot never holds the handle of a session whose task has
\* returned, and, provided every transport write that was started completes
\* or fails, once a session's read loop has ended the slot eventually stops
\* holding that session's handle.
C5_SlotNeverStaleIfWritesComplete ==
    /\ [](\A s \in Sessions : ws_writer = Some(s) => conn[s] # "done")
    /\ WritesComplete => \A s \in Sessions : LoopEnded(s) ~> (ws_writer # Some(s))

\* C5 happens: a send was written to a session's transport, the session's
\* read loop has ended and its task has returned, and the slot, which held
\* that session's handle last, is empty.
C5_Witness ==
    \E s \in Sessions :
        /\ conn[s] = "done" /\ hs[s] = "ok"
        /\ lastInstall = s
        /\ sent[s] # <<>>
        /\ ws_writer = None

\* C6: with a single connection, a send_to_agent call that starts after the
\* session emitted "Agent disconnected" returns "Not connected to agent" and
\* starts no write.
C6_SendAfterDisconnect ==
    [][\A c \in Callers :
         (nconn = 1 /\ call[c].late /\ LockStep(c)) =>
           /\ call'[c].pc = "returned"
           /\ call'[c].result = "Not connected to agent"]_vars

\* C7: a connection whose handshake fails returns at once: the failing step
\* changes neither the slot nor the lock nor the event sink, and the session
\* never holds the slot, never emits an event and never reads a frame.
C7_HandshakeFailure ==
    /\ [](\A s \in Sessions :
            hs[s] = "failed" =>
              /\ conn[s] = "done"
              /\ ws_writer # Some(s)
              /\ EventsOf(s) = <<>>
              /\ nread[s] = 0)
    /\ [][\A s \in Sessions :
            (conn[s] = "handshaking" /\ hs'[s] = "failed") =>
              /\ conn'[s] = "done"
              /\ UNCHANGED <<ws_writer, lock, events, sent>>]_vars

\* C7 happens: a handshake has failed while another session is Active with
\* its handle in the slot.
C7_Witness ==
    \E s, t \in Sessions :
        /\ hs[s] = "failed"
        /\ Active(t)
        /\ ws_writer = Some(t)

\* C8: once bind has succeeded the accept loop never stops, whatever
\* listener.accept() returns.
C8_AcceptLoopNeverStops ==
    [][listener = "accepting" => listener' = "accepting"]_vars

\* C9: after a failed bind the sink holds exactly one event, an agent-error
\* of the listener, nothing is ever accepted, the slot stays empty, every
\* send returns "Not connected to agent", and the listener stays stopped;
\* after a successful bind the first event is the one "Listening on port
\* 19823" status, and the listener emits no agent-error.
C9_BindOutcome ==
    /\ [](listener = "bind_failed" =>
            /\ Len(events) = 1
            /\ events[1].name = "agent-error" /\ events[1].src = 0
            /\ nconn = 0
            /\ \A s \in Sessions : conn[s] = "unborn"
            /\ ws_writer = None
            /\ \A c \in Callers :
                 /\ call[c].pc # "writing"
                 /\ call[c].pc = "returned" =>
                      call[c].result = "Not connected to agent")
    /\ [](listener \in {"accepting", "stopped"} =>
            /\ events[1] = StatusEvent("Listening on port 19823", 0)
            /\ \A i \in 2..Len(events) :
                 events[i].src # 0 /\ events[i].text # "Listening on port 19823")
    /\ [](listener \in {"start", "bind_failed", "accepting", "stopped"})
    /\ [](listener = "start" => events = <<>>)
    /\ [][listener = "bind_failed" => listener' = "bind_failed"]_vars

\* C9 happens: bind has failed and a send made afterwards has returned.
C9_Witness ==
    /\ listener = "bind_failed"
    /\ \A c \in Callers :
         call[c].pc = "returned" /\ call[c].result = "Not connected to agent"

\* The items of session s whose handling is finished.
Handled(s) == IF conn[s] = "handling" THEN nread[s] - 1 ELSE nread[s]

\* What an item makes the session emit: the event's name and, for a message,
\* its content.
ExpectOf(m) ==
    IF is_text(m)
    THEN IF Malformed(m) \/ m.doc.timestamp.t # "str"
              \/ m.doc.toolCalls.t \notin {"absent", "null", "arr"}
         THEN <<[name |-> "agent-error", content |-> ""]>>
         ELSE <<[name |-> "agent-message", content |-> m.doc.content.s]>>
    ELSE IF m.kind = "close" THEN <<[name |-> "agent-status", content |-> ""]>>
    ELSE IF m.kind = "err" THEN <<[name |-> "agent-error", content |-> ""]>>
    ELSE <<>>

RECURSIVE Expected(_, _)
Expected(s, k) ==
    IF k = 0 THEN <<>> ELSE Expected(s, k - 1) \o ExpectOf(wire[s][k])

\* The events session s emitted for the items of its stream: all but its
\* "Agent connected".
FrameEvents(s) ==
    LET es == Tail(EventsOf(s))
    IN  [i \in 1..Len(es) |-> [name |-> es[i].name, content |-> es[i].msg.content]]

\* C10: the events a session has emitted for its stream are those of the
\* items it has handled, in the order the items arrived; an item is read
\* only when every item before it has been handled, and the item in hand is
\* the oldest one not yet handled.
C10_FramesInArrivalOrder ==
    \A s \in Sessions :
        conn[s] \in {"reading", "handling", "cleanup", "done"} /\ hs[s] = "ok" =>
            /\ FrameEvents(s) = Expected(s, Handled(s))
            /\ nread[s] <= Len(wire[s])
            /\ conn[s] = "handling" => cur[s] = wire[s][nread[s]]

\* C10 happens: a session has handled two different text frames.
C10_Witness ==
    \E s \in Sessions :
        /\ conn[s] = "reading"
        /\ nread[s] = 2
        /\ is_text(wire[s][1]) /\ is_text(wire[s][2])
        /\ wire[s][1] # wire[s][2]
        /\ Len(EventsOf(s)) = 3

\* C11: install, clear and send on the slot exclude one another: a call has
\* its write in progress exactly while it holds the lock, so no two calls
\* write at the same time, and from the step in which a call has seen a
\* handle in the slot until its write has finished no session installs or
\* clears and no other call starts a write.
C11_SlotMutualExclusion ==
    /\ [](lock \in {0} \cup Callers)
    /\ [](\A c \in Callers : call[c].pc = "writing" <=> lock = c)
    /\ [](\A c, d \in Callers :
            (call[c].pc = "writing" /\ call[d].pc = "writing") => c = d)
    /\ [][lock # 0 =>
            /\ ws_writer' = ws_writer
            /\ lastInstall' = lastInstall
            /\ \A s \in Sessions :
                 conn[s] \in {"install", "cleanup"} => conn'[s] = conn[s]
            /\ \A d \in Callers :
                 call[d].pc = "locking" => call'[d].pc = "locking"]_vars

\* C11 happens: a call's write is in progress while the other call, a
\* session's cleanup and the other session's install await the lock.
C11_Witness ==
    \E c, d \in Callers, s, t \in Sessions :
        /\ call[c].pc = "writing"
        /\ call[d].pc = "locking"
        /\ conn[s] = "cleanup"
        /\ conn[t] = "install"

\* The step in which call c returns Ok.
ReturnsOk(c) ==
    call[c].pc # "returned" /\ call'[c].pc = "returned" /\ call'[c].result = "Ok"

RECURSIVE Written(_)
\* The frames written so far to the transports of the connections 1..n.
Written(n) == IF n = 0 THEN 0 ELSE Len(sent[n]) + Written(n - 1)

\* C12: a send_to_agent(content) call that returns Ok has written exactly
\* one frame, to the transport of the handle in the slot, and that frame has
\* type "user_input" and the call's argument as content; nothing but the
\* return of Ok writes a frame, so every frame on a transport is such a
\* frame and there are as many frames as calls that returned Ok.
C12_OkWritesOneUserInput ==
    /\ [](\A s \in Sessions : \A i \in 1..Len(sent[s]) :
            /\ DOMAIN sent[s][i] = {"type", "content"}
            /\ sent[s][i].type = "user_input"
            /\ sent[s][i].content \in SendContents)
    /\ [](Written(NumSessions) =
            Cardinality({c \in Callers :
                           call[c].pc = "returned" /\ call[c].result = "Ok"}))
    /\ [][\A c \in Callers :
            ReturnsOk(c) =>
              \E s \in Sessions :
                /\ ws_writer = Some(s)
                /\ sent' = [sent EXCEPT ![s] =
                              Append(@, [type |-> "user_input",
                                         content |-> call[c].content])]]_vars
    /\ [][sent' # sent => \E c \in Callers : ReturnsOk(c)]_vars

\* C12 happens: both calls have returned Ok with different arguments, and
\* their two frames are on one transport.
C12_Witness ==
    \E s \in Sessions :
        /\ \A c \in Callers : call[c].pc = "returned" /\ call[c].result = "Ok"
        /\ Len(sent[s]) = 2
        /\ sent[s][1].content # sent[s][2].content

\* A well-formed AgentEnvelope document: a JSON object with role, content and
\* timestamp strings, and toolCalls an array of strings or omitted.
WellFormed(doc) ==
    /\ doc.json
    /\ doc.role.t = "str" /\ doc.content.t = "str" /\ doc.timestamp.t = "str"
    /\ doc.toolCalls.t \in {"absent", "arr"}

\* C13: for a text frame with a well-formed AgentEnvelope document, role and
\* content present, the decoding succeeds: the session emits one
\* agent-message whose message has the document's role, content and
\* timestamp, and toolCalls as received: an array stays present with the
\* same elements in the same order (the empty array stays an empty array),
\* and an omitted toolCalls stays absent and is no empty sequence.
C13_ToolCallsRoundTrip ==
    [][\A s \in Sessions :
         (HandleStep(s) /\ is_text(cur[s]) /\ WellFormed(cur[s].doc)) =>
           LET doc == cur[s].doc
               e == events'[Len(events')]
           IN  /\ Len(events') = Len(events) + 1
               /\ SubSeq(events', 1, Len(events)) = events
               /\ e.name = "agent-message" /\ e.src = s
               /\ e.msg.role = doc.role.s
               /\ e.msg.content = doc.content.s
               /\ e.msg.timestamp = doc.timestamp.s
               /\ doc.toolCalls.t = "arr" =>
                    /\ e.msg.tool_calls # None
                    /\ Len(e.msg.tool_calls) = 1
                    /\ e.msg.tool_calls[1] = doc.toolCalls.a
               /\ doc.toolCalls.t = "absent" =>
                    /\ e.msg.tool_calls = None
                    /\ e.msg.tool_calls # Some(<<>>)]_vars

\* C13 happens: a session has decoded a document with toolCalls ["a", "b"]
\* and one without toolCalls, and its two agent-message events carry
\* Some(["a", "b"]) and None.
C13_Witness ==
    \E s \in Sessions :
        /\ nread[s] = 2 /\ conn[s] = "reading"
        /\ is_text(wire[s][1]) /\ WellFormed(wire[s][1].doc)
        /\ is_text(wire[s][2]) /\ WellFormed(wire[s][2].doc)
        /\ wire[s][1].doc.toolCalls = JArr(<<"a", "b">>)
        /\ wire[s][2].doc.toolCalls = JAbsent
        /\ Len(EventsOf(s)) = 3
        /\ EventsOf(s)[2].msg.tool_calls = Some(<<"a", "b">>)
        /\ EventsOf(s)[3].msg.tool_calls = None

\* The "Agent connected" status of session s.
Connected(s) == StatusEvent("Agent connected", s)

\* C14: a session installs its handle, then emits "Agent connected", once,
\* and only then reads: the install step puts the session's handle into the
\* slot and emits nothing, the announcing step follows the install and
\* appends the one status, and reading starts after it; so a session that
\* has not announced has emitted and read nothing, and the first event of a
\* session that has is its only "Agent connected".
C14_InstallThenAnnounceThenRead ==
    /\ [](\A s \in Sessions :
            conn[s] \in {"unborn", "handshaking", "install", "announce"} =>
              EventsOf(s) = <<>> /\ nread[s] = 0 /\ cur[s] = NoItem)
    /\ [](\A s \in Sessions :
            (EventsOf(s) # <<>> \/ nread[s] > 0) =>
              /\ hs[s] = "ok"
              /\ conn[s] \in {"reading", "handling", "cleanup", "done"}
              /\ EventsOf(s)[1] = Connected(s)
              /\ \A i \in 2..Len(EventsOf(s)) : EventsOf(s)[i] # Connected(s))
    /\ [][\A s \in Sessions :
            /\ (conn[s] = "install" /\ conn'[s] # "install") =>
                 conn'[s] = "announce" /\ ws_writer' = Some(s) /\ events' = events
            /\ (conn[s] # "announce" /\ conn'[s] = "announce") =>
                 conn[s] = "install"
            /\ (conn[s] = "announce" /\ conn'[s] # "announce") =>
                 conn'[s] = "reading" /\ events' = Append(events, Connected(s))
            /\ (conn[s] # "reading" /\ conn'[s] = "reading") =>
                 conn[s] \in {"announce", "handling"}
            /\ nread'[s] # nread[s] => conn[s] = "reading"]_vars

\* C14 happens: a session has handled its first frame, a message, after its
\* "Agent connected", with its handle in the slot, while the other session
\* has installed and not yet announced.
C14_Witness ==
    \E s, t \in Sessions :
        /\ conn[s] = "reading" /\ nread[s] = 1
        /\ Len(EventsOf(s)) = 2
        /\ EventsOf(s)[1] = Connected(s)
        /\ EventsOf(s)[2].name = "agent-message"
        /\ conn[t] = "announce" /\ ws_writer = Some(t)

\* Closed: the read loop of the session has ended.
Closed(s) == conn[s] \in {"cleanup", "done"}

\* The events of session s with the given name and text.
CountOf(s, n, p) ==
    Len(SelectSeq(EventsOf(s), LAMBDA e : e.name = n /\ e.text = p))

\* C15: handling a close frame appends exactly one "Agent disconnected"
\* status and ends the read loop, handling a read error appends exactly one
\* agent-error and ends the read loop; a session emits each at most once, and
\* once its loop has ended it stays ended, reads no item and emits no event,
\* whatever arrives on its connection.
C15_CloseAndErrorEndSession ==
    /\ [](\A s \in Sessions :
            /\ CountOf(s, "agent-status", "Agent disconnected") <= 1
            /\ CountOf(s, "agent-error", "Connection error") <= 1)
    /\ [][\A s \in Sessions :
            /\ (HandleStep(s) /\ is_close(cur[s])) =>
                 /\ events' = Append(events, StatusEvent("Agent disconnected", s))
                 /\ Closed(s)'
            /\ (HandleStep(s) /\ cur[s].kind = "err") =>
                 /\ events' = Append(events, ErrorEvent("Connection error", s))
                 /\ Closed(s)'
            /\ Closed(s) =>
                 /\ Closed(s)'
                 /\ EventsOf(s)' = EventsOf(s)
                 /\ nread'[s] = nread[s]]_vars

\* C15 happens: a session has ended on a close frame with its one "Agent
\* disconnected", a text frame has arrived on its connection afterwards,
\* and the task has returned without reading it.
C15_Witness ==
    \E s \in Sessions :
        /\ conn[s] = "done"
        /\ wire[s] = <<CloseFrame, TextFull>>
        /\ nread[s] = 1
        /\ EventsOf(s) = <<Connected(s), StatusEvent("Agent disconnected", s)>>

\* C16: when the second connection is made after the first session has
\* closed, a call that takes the lock while the second session is Active
\* finds the second session's handle and starts its write on it, a call that
\* takes the lock before the second session has installed returns "Not
\* connected to agent", and no call finds the first session's handle.
C16_ReconnectReplacesSlot ==
    [][\A c \in Callers, s, t \in Sessions :
         (s < t /\ hs[s] = "ok" /\ Closed(s) /\ LockStep(c)) =>
           /\ ws_writer # Some(s)
           /\ Active(t) => ws_writer = Some(t) /\ call'[c].pc = "writing"
           /\ conn[t] \in {"unborn", "handshaking", "install"} =>
                /\ call'[c].pc = "returned"
                /\ call'[c].result = "Not connected to agent"]_vars

\* A frame that is neither text nor close: binary, ping or pong.
Ignored(m) == m.kind \in {"binary", "ping", "pong"}

\* C17: handling a frame that is neither text nor close emits no event,
\* leaves the slot, the lock and the transports as they were and returns to
\* read.next(), so the session stays Active; the item read after such a
\* frame is the one that arrived next, and handling it emits what that item
\* emits by itself.
C17_OtherFramesIgnored ==
    /\ [](\A s \in Sessions :
            (hs[s] = "ok" /\ nread[s] > 0
               /\ \A i \in 1..nread[s] : Ignored(wire[s][i])) =>
              /\ conn[s] \in {"reading", "handling"}
              /\ EventsOf(s) = <<Connected(s)>>)
    /\ [][\A s \in Sessions :
            /\ (HandleStep(s) /\ Ignored(cur[s])) =>
                 /\ conn'[s] = "reading"
                 /\ UNCHANGED <<events, ws_writer, lock, sent, nread, wire>>
            /\ (conn[s] = "reading" /\ nread'[s] # nread[s]
                  /\ nread[s] > 0 /\ Ignored(wire[s][nread[s]])) =>
                 /\ nread'[s] = nread[s] + 1
                 /\ cur'[s] = wire[s][nread[s] + 1]
            /\ (HandleStep(s) /\ nread[s] > 1 /\ Ignored(wire[s][nread[s] - 1])) =>
                 /\ Len(events') = Len(events) + Len(ExpectOf(cur[s]))
                 /\ SubSeq(events', 1, Len(events)) = events
                 /\ ExpectOf(cur[s]) # <<>> =>
                      /\ events'[Len(events')].name = ExpectOf(cur[s])[1].name
                      /\ events'[Len(events')].src = s]_vars

\* C17 happens: a session has handled a ping and then a text frame: it has
\* emitted the message after its "Agent connected" and nothing else, it is
\* reading, and its handle is in the slot.
C17_Witness ==
    \E s \in Sessions :
        /\ wire[s] = <<PingFrame, TextFull>>
        /\ nread[s] = 2 /\ conn[s] = "reading"
        /\ Len(EventsOf(s)) = 2
        /\ EventsOf(s)[2].name = "agent-message"
        /\ ws_writer = Some(s)

\* The step in which the write of call c fails and the call returns.
WriteFails(c) ==
    /\ call[c].pc = "writing"
    /\ call'[c].pc = "returned"
    /\ call'[c].result # "Ok"

\* C18: a call whose transport write fails returns the transport's error to
\* its caller and releases the lock, and the step changes nothing else: the
\* slot holds the same handle, every session is where it was with the same
\* items read and to read, nothing is written, and no event is emitted; no
\* event of the sink comes from a call.
C18_FailedWriteChangesNothing ==
    /\ [](\A i \in 1..Len(events) : events[i].src \in {0} \cup Sessions)
    /\ [][\A c \in Callers :
            WriteFails(c) =>
              /\ call'[c].result = "transport error"
              /\ lock' = 0
              /\ ws_writer # None
              /\ \A d \in Callers : d # c => call'[d] = call[d]
              /\ UNCHANGED <<ws_writer, conn, hs, cur, nread, wire, events, sent,
                             listener, nconn, lastInstall>>]_vars

\* C18 happens: a call has returned the transport's error and the other has
\* returned Ok with its frame on the transport, while the session whose
\* handle the slot holds is reading and has emitted nothing but its "Agent
\* connected".
C18_Witness ==
    \E c, d \in Callers, s \in Sessions :
        /\ call[c].pc = "returned" /\ call[c].result = "transport error"
        /\ call[d].pc = "returned" /\ call[d].result = "Ok"
        /\ ws_writer = Some(s)
        /\ conn[s] = "reading"
        /\ Len(sent[s]) = 1
        /\ EventsOf(s) = <<Connected(s)>>

\* The stream of session s has ended by itself: the last item read is the
\* end of the stream, which nothing follows.
EndedSilently(s) == nread[s] > 0 /\ wire[s][nread[s]] = StreamEnd

\* C19: when read.next() returns the end of the stream the loop ends without
\* an event and the slot is not touched by that step; the session then runs
\* its cleanup like every session whose loop has ended: its task returns only
\* by the step that stores None in the slot.  Such a session never has an
\* "Agent disconnected" or a "Connection error" among its events.
C19_SilentEndOfStream ==
    /\ [](\A s \in Sessions :
            EndedSilently(s) =>
              /\ conn[s] \in {"handling", "cleanup", "done"}
              /\ EventsOf(s)[1] = Connected(s)
              /\ CountOf(s, "agent-status", "Agent disconnected") = 0
              /\ CountOf(s, "agent-error", "Connection error") = 0)
    /\ [][\A s \in Sessions :
            /\ (HandleStep(s) /\ cur[s].kind = "end") =>
                 /\ conn'[s] = "cleanup"
                 /\ UNCHANGED <<events, ws_writer, lock, sent>>
            /\ (hs[s] = "ok" /\ conn[s] # "done" /\ conn'[s] = "done") =>
                 /\ conn[s] = "cleanup"
                 /\ lock = 0
                 /\ ws_writer' = None
                 /\ events' = events]_vars

\* C19 happens: a session has emitted "Agent connected" and nothing else,
\* its stream has ended at once, it has run its cleanup and its task has
\* returned.
C19_Witness ==
    \E s \in Sessions :
        /\ conn[s] = "done" /\ hs[s] = "ok"
        /\ wire[s] = <<StreamEnd>> /\ nread[s] = 1
        /\ EventsOf(s) = <<Connected(s)>>
        /\ lastInstall = s /\ ws_writer = None

\* Call c has been made and has not returned.
Pending(c) == call[c].pc \in {"locking", "writing"}

\* No session awaits its cleanup and no call awaits its return.
Settled ==
    /\ \A s \in Sessions : LoopEnded(s) => conn[s] = "done"
    /\ \A c \in Callers : ~Pending(c)

\* C20: the lock is taken only when it is free and only by a call that
\* awaits it, it is held only by a call whose write is in progress, every
\* return of a call, Ok or error, leaves it free, and install and cleanup
\* leave it free; and, provided every transport write that was started
\* completes or fails, every session whose read loop has ended completes its
\* cleanup and every call returns.  An ended loop stays ended and a pending
\* call stays pending until it returns, so "each of them eventually" is
\* "from some time on none of them is waiting".
C20_NoDeadlock ==
    /\ [](lock # 0 => lock \in Callers /\ call[lock].pc = "writing")
    /\ [][/\ (lock' # lock /\ lock' # 0) =>
               lock = 0 /\ call[lock'].pc = "locking"
          /\ \A c \in Callers :
               /\ (call[c].pc # "returned" /\ call'[c].pc = "returned") => lock' = 0
               /\ Pending(c) => (Pending(c)' \/ call'[c].pc = "returned")
          /\ \A s \in Sessions :
               /\ (conn[s] \in {"install", "cleanup"} /\ conn'[s] # conn[s]) =>
                    lock = 0 /\ lock' = 0
               /\ LoopEnded(s) => LoopEnded(s)'
               /\ conn[s] = "done" => conn'[s] = "done"]_vars
    /\ WritesComplete => <>[]Settled

\* C20 happens: every call has returned, one of them with the error of its
\* write, every session's read loop has ended and its task has returned,
\* and the lock is free.
C20_Witness ==
    /\ \A c \in Callers : call[c].pc = "returned"
    /\ \E c \in Callers : call[c].result = "transport error"
    /\ \E c \in Callers : call[c].result = "Ok"
    /\ \A s \in Sessions : conn[s] = "done" /\ hs[s] = "ok"
    /\ lock = 0

====
